---- MODULE Spec2Model ----
(***************************************************************************)
(* Model of the pay-fees store (src/web/site/stores/pay-fees.ts): the fee  *)
(* ledger (fees, folioNumber, feeInfo cache and the asynchronous lookups)  *)
(* and the payment method selector (account snapshot, selected method,    *)
(* reactive rule).  The file holds two revisions of the store; where they  *)
(* differ the variable `revision` says which one a behaviour runs.         *)
(***************************************************************************)
EXTENDS Integers, Sequences, FiniteSets, TLC

(* ---------------------------------------------------------------------- *)
(* Bounds                                                                  *)
(* ---------------------------------------------------------------------- *)
MaxQuantity == 2
MaxUuid == 2
MaxCalls == 2
MaxCache == 2
MaxAlerts == 2
MaxInits == 2
MaxFlush == 4
MaxEntries == 3

(* ---------------------------------------------------------------------- *)
(* JavaScript values                                                       *)
(* ---------------------------------------------------------------------- *)
Null == "null"
Undefined == "undefined"
\* an object-typed value that is undefined (a missing descriptor, no FeeInfo)
UndefinedObject == [undefined |-> TRUE]

\* x == null in JavaScript: true of null and of undefined
IsNullish(x) == x \in {Null, Undefined}

(* ---------------------------------------------------------------------- *)
(* Fee items (FeeInfo) handed to addFee / removeFee                        *)
(* ---------------------------------------------------------------------- *)
FilingTypes == {"ANNUAL_REPORT", Undefined}
FilingTypeCodes == {"BCANN", Null}

FeeItems ==
  [filingType : FilingTypes, filingTypeCode : FilingTypeCodes,
   total : {"20", Null}, filingFees : {"20", Null}]

HasQuantity(fee) == "quantity" \in DOMAIN fee

\* the predicate of fees.value.find / findIndex
SameKey(fee, item) ==
  /\ fee.filingType = item.filingType
  /\ fee.filingTypeCode = item.filingTypeCode

\* fees.value.findIndex(...): first matching index, 0 when there is none
FindIndex(fs, item) ==
  IF \E k \in 1..Len(fs) : SameKey(fs[k], item)
  THEN CHOOSE k \in 1..Len(fs) :
         /\ SameKey(fs[k], item)
         /\ \A j \in 1..(k - 1) : ~SameKey(fs[j], item)
  ELSE 0

\* the validation of addFee's else branch
InvalidFee(newFee) ==
  \/ IsNullish(newFee.total)
  \/ IsNullish(newFee.filingFees)
  \/ IsNullish(newFee.filingTypeCode)

\* fees.value.splice(index, 1)
Splice(fs, index) == [k \in 1..(Len(fs) - 1) |-> IF k < index THEN fs[k] ELSE fs[k + 1]]

\* mutant of AddFeeOp: every call appends, the existing entry is not looked up
AddFeeOpAlwaysPush(fs, newFee, uuid) ==
  IF InvalidFee(newFee) THEN fs
  ELSE Append(fs, [quantity |-> 1, uiUuid |-> uuid] @@ newFee)

\* mutant of AddFeeOp: a repeated add leaves the quantity alone
AddFeeOpNoIncrement(fs, newFee, uuid) ==
  LET k == FindIndex(fs, newFee) IN
  IF k > 0 THEN fs
  ELSE IF InvalidFee(newFee) THEN fs
  ELSE Append(fs, [quantity |-> 1, uiUuid |-> uuid] @@ newFee)

\* addFee: the ledger after addFee(newFee), uuid being the value of UUIDv4()
AddFeeOp(fs, newFee, uuid) ==
  LET k == FindIndex(fs, newFee) IN
  IF k > 0
  THEN [fs EXCEPT ![k] = IF HasQuantity(@) THEN [@ EXCEPT !.quantity = @ + 1]
                         ELSE [quantity |-> 1] @@ @]
  ELSE IF InvalidFee(newFee) THEN fs
  ELSE Append(fs, [quantity |-> 1, uiUuid |-> uuid] @@ newFee)

\* mutant of RemoveFeeOp: the entry is deleted whatever its quantity
RemoveFeeOpAlwaysDelete(fs, feeToRemove) ==
  LET k == FindIndex(fs, feeToRemove) IN
  IF k > 0 THEN Splice(fs, k) ELSE fs

\* mutant of RemoveFeeOp: an entry is never deleted, its last unit stays
RemoveFeeOpKeepLast(fs, feeToRemove) ==
  LET k == FindIndex(fs, feeToRemove) IN
  IF k > 0 /\ HasQuantity(fs[k]) /\ fs[k].quantity > 1
  THEN [fs EXCEPT ![k] = [@ EXCEPT !.quantity = @ - 1]]
  ELSE fs

\* mutant of RemoveFeeOp: the deleted entry's place is filled with the last entry
RemoveFeeOpSwapDelete(fs, feeToRemove) ==
  LET k == FindIndex(fs, feeToRemove) IN
  IF k > 0 /\ HasQuantity(fs[k]) /\ fs[k].quantity # 0 /\ fs[k].quantity > 1
  THEN [fs EXCEPT ![k] = [@ EXCEPT !.quantity = @ - 1]]
  ELSE IF k > 0 THEN [j \in 1..(Len(fs) - 1) |-> IF j = k THEN fs[Len(fs)] ELSE fs[j]]
  ELSE fs

\* removeFee: the ledger after removeFee(feeToRemove)
RemoveFeeOp(fs, feeToRemove) ==
  LET k == FindIndex(fs, feeToRemove) IN
  IF k > 0 /\ HasQuantity(fs[k]) /\ fs[k].quantity # 0 /\ fs[k].quantity > 1
  THEN [fs EXCEPT ![k] = [@ EXCEPT !.quantity = @ - 1]]
  ELSE IF k > 0 THEN Splice(fs, k) ELSE fs

(* ---------------------------------------------------------------------- *)
(* Fee lookups: descriptors (FeeData), the fee-type table, the resolver    *)
(* ---------------------------------------------------------------------- *)
FilingData == [entityType : {"BC", "CP"}, filingTypeCode : {"BCANN"}]

\* payApi.feeType: the static table from fee code to descriptor
feeType ==
  [code \in {"BCANN", "CPANN"} |->
     [entityType |-> IF code = "BCANN" THEN "BC" ELSE "CP", filingTypeCode |-> "BCANN"]]

\* the fee codes a caller may pass to addPayFees; "NOCODE" is not in the table
FeeCodes == {"BCANN", "CPANN", "NOCODE"}

\* the FeeInfo the fee-schedule service holds for a descriptor
FeeOf(d) ==
  [filingType |-> "ANNUAL_REPORT", filingTypeCode |-> d.filingTypeCode,
   total |-> IF d.entityType = "BC" THEN "20" ELSE "30",
   filingFees |-> IF d.entityType = "BC" THEN "20" ELSE "30"]

\* what payApi.fetchFee(d) may resolve to (it may also reject)
FetchResults(d) ==
  IF d = UndefinedObject THEN {UndefinedObject} ELSE {FeeOf(d), UndefinedObject}

\* the filingData lists a caller may pass to loadFeeTypesAndCharges
FilingDataLists ==
  {<<>>} \cup {<<d>> : d \in FilingData} \cup {<<d, e>> : d \in FilingData, e \in FilingData}

Folios == {"F1"}

\* the predicate of feeInfo.value.find; reading a property of undefined throws
SameData(filingData, searchFilingData) ==
  /\ filingData.entityType = searchFilingData.entityType
  /\ filingData.filingTypeCode = searchFilingData.filingTypeCode

\* feeInfo.value.find(...): index of the first matching pair, 0 when none
CacheIndex(cache, d) ==
  IF \E k \in 1..Len(cache) : SameData(cache[k][1], d)
  THEN CHOOSE k \in 1..Len(cache) :
         /\ SameData(cache[k][1], d)
         /\ \A j \in 1..(k - 1) : ~SameData(cache[j][1], d)
  ELSE 0

\* the find of getFeeInfo throws a TypeError: the callback runs (the cache is
\* not empty) and reads searchFilingData.entityType of undefined
FindThrows(cache, d) == d = UndefinedObject /\ cache # <<>>

\* mutant of CacheLookup: the cache is never consulted
CacheLookupMiss(cache, d) == UndefinedObject

\* the value of feeInfoItem?.[1] after the find of getFeeInfo (no throw)
CacheLookup(cache, d) ==
  IF d = UndefinedObject THEN UndefinedObject
  ELSE IF CacheIndex(cache, d) > 0 THEN cache[CacheIndex(cache, d)][2]
  ELSE UndefinedObject

(* ---------------------------------------------------------------------- *)
(* State                                                                   *)
(* ---------------------------------------------------------------------- *)
VARIABLES
  fees,                         \* ref fees: the ledger
  folioNumber,                  \* ref folioNumber
  feeInfo,                      \* ref feeInfo: the cache of <<descriptor, FeeInfo>>
  nextUuid,                     \* the identifiers UUIDv4 has handed out are 1..nextUuid-1
  calls,                        \* the asynchronous fee operations in flight
  alerts,                       \* the categories handed to alertStore.addAlert
  revision,                     \* which revision of the store runs (1: lines 16-203, 2: 219-407)
  userPaymentAccount,
  userSelectedPaymentMethod,
  allowAlternatePaymentMethod,
  allowedPaymentMethods,
  watchOld,                     \* the watcher's old value of userSelectedPaymentMethod
  watchQueued,                  \* the watcher's job is queued for the next flush
  inits,                        \* the initPaymentMethod calls in flight
  last,                         \* the step just taken (observation only)
  accountDetails,               \* the account-creation form: reactive accountDetails
  regionEnteredFor              \* the country the stored region was entered for (observation only)

feeVars == <<fees, folioNumber, feeInfo, nextUuid, calls>>
payVars ==
  <<revision, userPaymentAccount, userSelectedPaymentMethod, allowAlternatePaymentMethod,
    allowedPaymentMethods, watchOld, watchQueued, inits>>
formVars == <<accountDetails, regionEnteredFor>>
vars == <<feeVars, payVars, alerts, last, formVars>>

EmptyAccount == [paymentMethod |-> Undefined, cfsAccount |-> UndefinedObject]

InitPay ==
  /\ userPaymentAccount = EmptyAccount
  /\ userSelectedPaymentMethod = "DIRECT_PAY"
  /\ allowAlternatePaymentMethod = FALSE
  /\ allowedPaymentMethods = <<>>
  /\ watchOld = "DIRECT_PAY"
  /\ watchQueued = FALSE
  /\ inits = <<>>

\* accountDetails as constructed: no region, country 'CA'
InitForm ==
  /\ accountDetails = [mailingAddress |-> [region |-> Undefined, country |-> "CA"]]
  /\ regionEnteredFor = Undefined

InitFees ==
  /\ fees = <<>>
  /\ folioNumber = ""
  /\ feeInfo = <<>>
  /\ nextUuid = 1
  /\ calls = <<>>

(* ---------------------------------------------------------------------- *)
(* Fee ledger: addFee, removeFee                                           *)
(* ---------------------------------------------------------------------- *)
\* the bounds let the call happen: quantities stay <= MaxQuantity and
\* identifiers <= MaxUuid
AddFeeInBounds(fs, newFee) ==
  LET k == FindIndex(fs, newFee) IN
  IF k > 0 THEN (HasQuantity(fs[k]) => fs[k].quantity < MaxQuantity)
  ELSE InvalidFee(newFee) \/ nextUuid <= MaxUuid

\* UUIDv4() is called only when an entry is pushed
UuidAfter(fs, fsAfter) == IF Len(fsAfter) > Len(fs) THEN nextUuid + 1 ELSE nextUuid

addFee(newFee) ==
  /\ AddFeeInBounds(fees, newFee)
  /\ fees' = AddFeeOp(fees, newFee, nextUuid)
  /\ nextUuid' = UuidAfter(fees, fees')
  /\ UNCHANGED <<folioNumber, feeInfo, calls, alerts, payVars, formVars>>

removeFee(feeToRemove) ==
  /\ fees' = RemoveFeeOp(fees, feeToRemove)
  /\ UNCHANGED <<folioNumber, feeInfo, nextUuid, calls, alerts, payVars, formVars>>

(* ---------------------------------------------------------------------- *)
(* Fee lookups: loadFeeTypesAndCharges, getFeeInfo, addPayFees, $reset     *)
(* A call in flight is suspended at an await: pc "fetch" waits for         *)
(* payApi.fetchFee(d), pc "resume" for the continuation of an await whose  *)
(* promise is already settled.  calls lists them in the order they began.  *)
(* ---------------------------------------------------------------------- *)
HasFree == Len(calls) < MaxCalls

\* the cache entries a call in flight may still push
Pushes(call) ==
  IF call.pc # "fetch" THEN 0
  ELSE (IF call.d = UndefinedObject THEN 0 ELSE 1)
       + (IF call.op = "loadFeeTypesAndCharges" THEN Len(call.rest) ELSE 0)

RECURSIVE SumPushes(_)
SumPushes(c) == IF c = 0 THEN 0 ELSE Pushes(calls[c]) + SumPushes(c - 1)

\* the bound on the cache lets a call start that may push n more entries
CacheRoom(n) == Len(feeInfo) + SumPushes(Len(calls)) + n <= MaxCache

\* the bound on the alerts lets a call start that may raise one
AlertRoom ==
  Len(alerts) + Cardinality({c \in 1..Len(calls) : calls[c].op = "addPayFees"}) < MaxAlerts

\* mutant of PushFee: the response is dropped
PushFeeDropped(cache, d, fee) == cache

\* feeInfo.value.push([filingDataItem, fee]) under `if (fee)`
PushFee(cache, d, fee) ==
  IF fee # UndefinedObject THEN Append(cache, <<d, fee>>) ELSE cache

\* mutant of loadFeeTypesAndCharges: every descriptor is fetched at once
loadFeeTypesAndChargesParallel(newFolioNumber, filingData) ==
  /\ Len(calls) + Len(filingData) <= MaxCalls + 1
  /\ CacheRoom(Len(filingData))
  /\ folioNumber' = newFolioNumber
  /\ calls' = calls \o [k \in 1..Len(filingData) |->
                         [op |-> "loadFeeTypesAndCharges", pc |-> "fetch",
                          d |-> filingData[k], rest |-> <<>>]]
  /\ last' = [op |-> "loadFeeTypesAndCharges", filingData |-> filingData]
  /\ UNCHANGED <<fees, feeInfo, nextUuid, alerts, payVars, formVars>>

loadFeeTypesAndCharges(newFolioNumber, filingData) ==
  /\ filingData # <<>> => HasFree
  /\ CacheRoom(Len(filingData))
  /\ folioNumber' = newFolioNumber
  /\ calls' = IF filingData = <<>> THEN calls
              ELSE Append(calls, [op |-> "loadFeeTypesAndCharges", pc |-> "fetch",
                                  d |-> Head(filingData), rest |-> Tail(filingData)])
  /\ last' = [op |-> "loadFeeTypesAndCharges", filingData |-> filingData]
  /\ UNCHANGED <<fees, feeInfo, nextUuid, alerts, payVars, formVars>>

\* payApi.fetchFee resolves inside the loop of loadFeeTypesAndCharges
LoadResolve(c, fee) ==
  /\ calls[c].op = "loadFeeTypesAndCharges"
  /\ fee \in FetchResults(calls[c].d)
  /\ feeInfo' = PushFee(feeInfo, calls[c].d, fee)
  /\ calls' = IF calls[c].rest = <<>> THEN Splice(calls, c)
              ELSE [calls EXCEPT ![c] =
                      [@ EXCEPT !.d = Head(calls[c].rest), !.rest = Tail(calls[c].rest)]]
  /\ last' = [op |-> "loadFeeTypesAndCharges.resolved", at |-> c, d |-> calls[c].d,
              found |-> fee # UndefinedObject, rest |-> calls[c].rest]
  /\ UNCHANGED <<fees, folioNumber, nextUuid, alerts, payVars, formVars>>

\* payApi.fetchFee rejects: the await throws out of the loop and the call ends
LoadReject(c) ==
  /\ calls[c].op = "loadFeeTypesAndCharges"
  /\ calls' = Splice(calls, c)
  /\ last' = [op |-> "loadFeeTypesAndCharges.rejected", at |-> c, d |-> calls[c].d,
              found |-> FALSE, rest |-> calls[c].rest]
  /\ UNCHANGED <<fees, folioNumber, feeInfo, nextUuid, alerts, payVars, formVars>>

getFeeInfo(searchFilingData, tryLoadIfNotCached) ==
  LET feeInfoItem == CacheLookup(feeInfo, searchFilingData)
      load == feeInfoItem = UndefinedObject /\ tryLoadIfNotCached
  IN
  /\ load => HasFree /\ CacheRoom(1)
  /\ calls' = IF load
              THEN Append(calls, [op |-> "getFeeInfo", pc |-> "fetch", d |-> searchFilingData])
              ELSE calls
  /\ last' = [op |-> "getFeeInfo", d |-> searchFilingData,
              tryLoadIfNotCached |-> tryLoadIfNotCached,
              returned |-> ~load, result |-> feeInfoItem]
  /\ UNCHANGED <<fees, folioNumber, feeInfo, nextUuid, alerts, payVars, formVars>>

\* mutant of GetFeeInfoResolve: a key still absent after the load is loaded again
GetFeeInfoResolveRetry(c, fee) ==
  /\ calls[c].op = "getFeeInfo"
  /\ fee \in FetchResults(calls[c].d)
  /\ feeInfo' = PushFee(feeInfo, calls[c].d, fee)
  /\ calls' = IF fee = UndefinedObject
              THEN [calls EXCEPT ![c] = [op |-> "getFeeInfo", pc |-> "fetch", d |-> calls[c].d,
                                         retry |-> TRUE]]
              ELSE Splice(calls, c)
  /\ last' = [op |-> IF fee = UndefinedObject THEN "getFeeInfo.retried" ELSE "getFeeInfo.returned",
              d |-> calls[c].d, result |-> CacheLookup(feeInfo', calls[c].d)]
  /\ UNCHANGED <<fees, folioNumber, nextUuid, alerts, payVars, formVars>>

\* the single-item load of getFeeInfo resolves, then getFeeInfo(d, false) returns
GetFeeInfoResolve(c, fee) ==
  /\ calls[c].op = "getFeeInfo"
  /\ fee \in FetchResults(calls[c].d)
  /\ feeInfo' = PushFee(feeInfo, calls[c].d, fee)
  /\ calls' = Splice(calls, c)
  /\ last' = [op |-> "getFeeInfo.returned", d |-> calls[c].d,
              result |-> CacheLookup(feeInfo', calls[c].d)]
  /\ UNCHANGED <<fees, folioNumber, nextUuid, alerts, payVars, formVars>>

GetFeeInfoReject(c) ==
  /\ calls[c].op = "getFeeInfo"
  /\ calls' = Splice(calls, c)
  /\ last' = [op |-> "getFeeInfo.rejected"]
  /\ UNCHANGED <<fees, folioNumber, feeInfo, nextUuid, alerts, payVars, formVars>>

Threw == [threw |-> TRUE]

addPayFees(feeCode) ==
  LET fee == IF feeCode \in DOMAIN feeType THEN feeType[feeCode] ELSE UndefinedObject
      feeInfoItem == CacheLookup(feeInfo, fee)
      call == IF FindThrows(feeInfo, fee)
              THEN [op |-> "addPayFees", pc |-> "resume", code |-> feeCode, res |-> Threw]
              ELSE IF feeInfoItem # UndefinedObject
              THEN [op |-> "addPayFees", pc |-> "resume", code |-> feeCode,
                    res |-> feeInfoItem]
              ELSE [op |-> "addPayFees", pc |-> "fetch", code |-> feeCode, d |-> fee]
  IN
  /\ HasFree
  /\ AlertRoom
  /\ Pushes(call) > 0 => CacheRoom(1)
  /\ calls' = Append(calls, call)
  /\ last' = [op |-> "addPayFees"]
  /\ UNCHANGED <<fees, folioNumber, feeInfo, nextUuid, alerts, payVars, formVars>>

\* the end of addPayFees: outcome "added" (addFee was called), "notfound"
\* (getFeeInfo returned undefined), "threw" or "rejected" (the catch block ran)
AddPayFeesEnd(c, outcome, info) ==
  /\ outcome = "added" => AddFeeInBounds(fees, info)
  /\ fees' = IF outcome = "added" THEN AddFeeOp(fees, info, nextUuid) ELSE fees
  /\ nextUuid' = UuidAfter(fees, fees')
  /\ alerts' = IF outcome \in {"threw", "rejected"} THEN Append(alerts, "FEE_INFO")
               ELSE alerts
  /\ calls' = Splice(calls, c)
  /\ last' = [op |-> "addPayFees.returned", code |-> calls[c].code, outcome |-> outcome,
              afterReset |-> last.op = "$reset"]
  /\ UNCHANGED <<folioNumber, payVars, formVars>>

\* the continuation of `await getFeeInfo(fee)` when getFeeInfo did not fetch
AddPayFeesResume(c) ==
  /\ calls[c].op = "addPayFees"
  /\ calls[c].pc = "resume"
  /\ feeInfo' = feeInfo
  /\ AddPayFeesEnd(c, IF calls[c].res = Threw THEN "threw" ELSE "added", calls[c].res)

\* the fetch of getFeeInfo's load resolves; getFeeInfo(fee, false) then finds,
\* misses or throws, and addPayFees goes on
AddPayFeesResolve(c, fee) ==
  /\ calls[c].op = "addPayFees"
  /\ calls[c].pc = "fetch"
  /\ fee \in FetchResults(calls[c].d)
  /\ feeInfo' = PushFee(feeInfo, calls[c].d, fee)
  /\ LET feeInfoItem == CacheLookup(feeInfo', calls[c].d) IN
     AddPayFeesEnd(c, IF FindThrows(feeInfo', calls[c].d) THEN "threw"
                      ELSE IF feeInfoItem = UndefinedObject THEN "notfound"
                      ELSE "added", feeInfoItem)

AddPayFeesReject(c) ==
  /\ calls[c].op = "addPayFees"
  /\ calls[c].pc = "fetch"
  /\ feeInfo' = feeInfo
  /\ AddPayFeesEnd(c, "rejected", UndefinedObject)

\* mutant of reset: only the ledger is cleared
ResetLedgerOnly ==
  /\ fees' = <<>>
  /\ last' = [op |-> "$reset", hadFees |-> fees # <<>>, hadFolio |-> folioNumber # "",
              hadCache |-> feeInfo # <<>>]
  /\ UNCHANGED <<folioNumber, feeInfo, nextUuid, calls, alerts, payVars, formVars>>

\* mutant of reset: the payment selector is reset as well
ResetWholeStore ==
  /\ fees' = <<>>
  /\ folioNumber' = ""
  /\ feeInfo' = <<>>
  /\ userPaymentAccount' = EmptyAccount
  /\ userSelectedPaymentMethod' = "PAD"
  /\ watchQueued' = (watchQueued \/ userSelectedPaymentMethod # "PAD")
  /\ allowAlternatePaymentMethod' = FALSE
  /\ allowedPaymentMethods' = <<>>
  /\ last' = [op |-> "$reset", hadFees |-> fees # <<>>, hadFolio |-> folioNumber # "",
              hadCache |-> feeInfo # <<>>]
  /\ UNCHANGED <<nextUuid, calls, alerts, revision, watchOld, inits, formVars>>

reset ==
  /\ fees' = <<>>
  /\ folioNumber' = ""
  /\ feeInfo' = <<>>
  /\ last' = [op |-> "$reset", hadFees |-> fees # <<>>, hadFolio |-> folioNumber # "",
              hadCache |-> feeInfo # <<>>]
  /\ UNCHANGED <<nextUuid, calls, alerts, payVars, formVars>>

(* ---------------------------------------------------------------------- *)
(* Payment method selector: the watcher, resetPaymentOptions,              *)
(* initPaymentMethod                                                       *)
(* ---------------------------------------------------------------------- *)
PaymentMethod == {"DIRECT_PAY", "PAD"}
PaymentStatus == {"PENDING", "PENDING_PAD_ACTIVATION", "ACTIVE"}
PAD_PENDING_STATES == {"PENDING", "PENDING_PAD_ACTIVATION"}

\* a null response of useBarApi
NullAccount == [null |-> TRUE]

\* the snapshots the payment-account resolver may answer with
Snapshots ==
  [paymentMethod : PaymentMethod \cup {Undefined},
   cfsAccount : {UndefinedObject}
                  \cup [status : PaymentStatus, bankAccountNumber : {"1234"}]]

\* account?.cfsAccount?.status is one of PAD_PENDING_STATES
PendingStatus(account) ==
  /\ account # NullAccount
  /\ account.cfsAccount # UndefinedObject
  /\ account.cfsAccount.status \in PAD_PENDING_STATES

\* cfsAccount?.bankAccountNumber ?? ''
AccountNum(account) ==
  IF account.cfsAccount = UndefinedObject THEN "" ELSE account.cfsAccount.bankAccountNumber

\* One run of the watcher's job on s = [sel, old, alerts, queued]: the
\* callback runs when the value differs from the one the last run saw; its
\* corrective assignment queues the job again when it changes the value.
RunJob(s, account) ==
  IF s.sel = s.old THEN [s EXCEPT !.queued = FALSE]
  ELSE IF PendingStatus(account)
  THEN [sel |-> "DIRECT_PAY", old |-> s.sel,
        alerts |-> Append(s.alerts, "PAYMENT_METHOD"),
        queued |-> s.sel # "DIRECT_PAY", runs |-> s.runs + 1]
  ELSE [s EXCEPT !.old = s.sel, !.queued = FALSE, !.runs = s.runs + 1]

\* the scheduler's flush: the job runs until it is no longer queued, at most
\* fuel times
RECURSIVE FlushJobs(_, _, _)
FlushJobs(s, account, fuel) ==
  IF s.queued /\ fuel > 0 THEN FlushJobs(RunJob(s, account), account, fuel - 1) ELSE s

\* an assignment to userSelectedPaymentMethod.value queues the watcher's job
\* when it changes the value
Queued(value) == watchQueued \/ value # userSelectedPaymentMethod

\* a caller-started operation fits the bound on the alerts
PayAlertRoom == Len(alerts) + Len(inits) < MaxAlerts

\* the page assigns userSelectedPaymentMethod
SetSelected(value) ==
  /\ PayAlertRoom
  /\ userSelectedPaymentMethod' = value
  /\ watchQueued' = Queued(value)
  /\ last' = [op |-> "set", from |-> userSelectedPaymentMethod, to |-> value,
              pending |-> PendingStatus(userPaymentAccount), alertsAtSet |-> Len(alerts)]
  /\ UNCHANGED <<revision, userPaymentAccount, allowAlternatePaymentMethod,
                 allowedPaymentMethods, watchOld, inits, alerts, feeVars, formVars>>

\* the flush of the queued watcher job (a microtask)
WatchFlush ==
  /\ watchQueued
  /\ LET s == FlushJobs([sel |-> userSelectedPaymentMethod, old |-> watchOld,
                         alerts |-> alerts, queued |-> TRUE, runs |-> 0],
                        userPaymentAccount, MaxFlush)
     IN
     /\ userSelectedPaymentMethod' = s.sel
     /\ watchOld' = s.old
     /\ alerts' = s.alerts
     /\ watchQueued' = s.queued
     /\ last' = [op |-> "watch", runs |-> s.runs,
                 set |-> IF last.op = "set" THEN last ELSE [op |-> "none"]]
  /\ UNCHANGED <<revision, userPaymentAccount, allowAlternatePaymentMethod,
                 allowedPaymentMethods, inits, feeVars, formVars>>

\* the method resetPaymentOptions selects: PAD in revision 1, DIRECT_PAY in 2
ResetMethod == IF revision = 1 THEN "PAD" ELSE "DIRECT_PAY"

\* initPaymentMethod up to its await: resetPaymentOptions, then the request;
\* reading accountStore.currentAccount.id throws inside the try block when no
\* account is loaded, and the catch block runs at once
initPaymentMethod(accountLoaded) ==
  /\ PayAlertRoom
  /\ Len(inits) < MaxInits
  /\ userPaymentAccount' = EmptyAccount
  /\ userSelectedPaymentMethod' = ResetMethod
  /\ watchQueued' = Queued(ResetMethod)
  /\ allowAlternatePaymentMethod' = FALSE
  /\ allowedPaymentMethods' = <<>>
  /\ inits' = IF accountLoaded
              THEN Append([c \in 1..Len(inits) |-> [latest |-> FALSE, overlapped |-> TRUE]],
                          [latest |-> TRUE, overlapped |-> inits # <<>>])
              ELSE [c \in 1..Len(inits) |-> [latest |-> FALSE, overlapped |-> TRUE]]
  /\ alerts' = IF accountLoaded THEN alerts ELSE Append(alerts, "PAYMENT_METHOD")
  /\ last' = IF accountLoaded THEN [op |-> "initPaymentMethod"]
             ELSE [op |-> "initPaymentMethod.failed", why |-> "no account",
                   latest |-> TRUE, overlapped |-> inits # <<>>]
  /\ UNCHANGED <<revision, watchOld, feeVars, formVars>>

CreditCard == [label |-> <<"Credit Card">>, value |-> "DIRECT_PAY"]

\* the try block after the await, revision 1 (lines 64-84): the allowed
\* list and the selection it leaves
InitDone1(response) ==
  [allowed |-> <<CreditCard,
                 [label |-> <<"PAD Account", AccountNum(response)>>, value |-> "PAD"]>>,
   selected |-> IF PendingStatus(response) THEN "DIRECT_PAY" ELSE userSelectedPaymentMethod]

\* the try block after the await, revision 2 (lines 265-289)
InitDone2(response) ==
  LET defaultMethod == response.paymentMethod IN
  [allowed |->
     IF defaultMethod = Undefined THEN allowedPaymentMethods
     ELSE allowedPaymentMethods
            \o <<[label |-> <<"PAD Account", AccountNum(response)>>, value |-> defaultMethod]>>
            \o (IF defaultMethod # "DIRECT_PAY" THEN <<CreditCard>> ELSE <<>>),
   selected |->
     IF defaultMethod \notin {Undefined, "DIRECT_PAY"} /\ PendingStatus(response)
     THEN "DIRECT_PAY" ELSE defaultMethod]

\* The payment-account request resolves with a snapshot.  The continuation
\* runs as a microtask and the watcher job it queues is flushed by the next
\* one, before any other event, so the step includes that flush; a job the
\* caller queued has been flushed before the continuation runs.
InitResolve(c, response) ==
  /\ ~watchQueued
  /\ c \in 1..Len(inits)
  /\ LET done == IF revision = 1 THEN InitDone1(response) ELSE InitDone2(response)
         s == FlushJobs([sel |-> done.selected, old |-> watchOld, alerts |-> alerts,
                         queued |-> done.selected # userSelectedPaymentMethod, runs |-> 0],
                        response, MaxFlush)
     IN
     /\ userPaymentAccount' = response
     /\ allowedPaymentMethods' = done.allowed
     /\ userSelectedPaymentMethod' = s.sel
     /\ watchOld' = s.old
     /\ watchQueued' = s.queued
     /\ alerts' = s.alerts
     /\ last' = [op |-> "initPaymentMethod.done", latest |-> inits[c].latest,
                 overlapped |-> inits[c].overlapped, runs |-> s.runs]
  /\ allowAlternatePaymentMethod' = TRUE
  /\ inits' = Splice(inits, c)
  /\ UNCHANGED <<revision, feeVars, formVars>>

\* the catch block of initPaymentMethod
InitCatch(c, why) ==
  /\ alerts' = Append(alerts, "PAYMENT_METHOD")
  /\ inits' = Splice(inits, c)
  /\ last' = [op |-> "initPaymentMethod.failed", why |-> why, latest |-> inits[c].latest,
              overlapped |-> inits[c].overlapped]
  /\ UNCHANGED <<revision, userSelectedPaymentMethod, allowAlternatePaymentMethod,
                 allowedPaymentMethods, watchOld, watchQueued, feeVars, formVars>>

\* the request resolves with null: the response is stored, then reading a
\* property of it (cfsAccount in revision 1, paymentMethod in 2) throws
InitResolveNull(c) ==
  /\ ~watchQueued
  /\ c \in 1..Len(inits)
  /\ userPaymentAccount' = NullAccount
  /\ InitCatch(c, "null response")

\* the request rejects
InitReject(c) ==
  /\ ~watchQueued
  /\ c \in 1..Len(inits)
  /\ userPaymentAccount' = userPaymentAccount
  /\ InitCatch(c, "rejected")

(* ---------------------------------------------------------------------- *)
(* Account-creation form: the mailing address' country and region         *)
(* ---------------------------------------------------------------------- *)
\* the alpha-2 codes the country menu offers
Countries == {"CA", "US", "FR", "DE", "GB"}

\* country?.toLowerCase()
toLowerCase(code) ==
  CASE code = "CA" -> "ca"
    [] code = "US" -> "us"
    [] code = "FR" -> "fr"
    [] code = "DE" -> "de"
    [] code = "GB" -> "gb"
    [] OTHER -> code

\* selectedCountryCode === 'ca' || selectedCountryCode === 'us'
IsDropdownCode(code) == toLowerCase(code) \in {"ca", "us"}

isRegionDropdown == IsDropdownCode(accountDetails.mailingAddress.country)

\* the subdivision codes of the two countries that have a region menu
countrySubdivisions == [ca |-> {"BC", "ON"}, us |-> {"WA", "NY"}]

\* the values the region menu offers
regionOptions ==
  LET selectedCountryCode == toLowerCase(accountDetails.mailingAddress.country) IN
  IF selectedCountryCode \in {"ca", "us"} THEN countrySubdivisions[selectedCountryCode]
  ELSE {}

\* the texts typed into the region input of the other countries
RegionTexts == {"Bavaria", "BC"}

\* the callback of watch(() => accountDetails.mailingAddress.country): the
\* form after it has run with (newCountry, oldCountry)
CountryWatch(details, newCountry, oldCountry) ==
  LET wasDropdown == IsDropdownCode(oldCountry)
      isNowDropdown == IsDropdownCode(newCountry)
  IN
  IF wasDropdown /\ ~isNowDropdown
  THEN [details EXCEPT !.mailingAddress.region = Undefined]
  ELSE IF ~wasDropdown /\ isNowDropdown
  THEN [details EXCEPT !.mailingAddress.region = Undefined]
  ELSE details

\* The country menu assigns accountDetails.mailingAddress.country; when the
\* value has changed the watcher's callback runs in the flush that follows,
\* before any other event of the page.
SelectCountry(newCountry) ==
  LET oldCountry == accountDetails.mailingAddress.country
      assigned == [accountDetails EXCEPT !.mailingAddress.country = newCountry]
  IN
  /\ accountDetails' = IF newCountry = oldCountry THEN assigned
                       ELSE CountryWatch(assigned, newCountry, oldCountry)
  /\ regionEnteredFor' = IF accountDetails'.mailingAddress.region = Undefined THEN Undefined
                         ELSE regionEnteredFor
  /\ last' = [op |-> "country", from |-> oldCountry, to |-> newCountry,
              regionBefore |-> accountDetails.mailingAddress.region]
  /\ UNCHANGED <<feeVars, payVars, alerts>>

\* the region menu (v-if isRegionDropdown) or the region input (v-else)
\* assigns accountDetails.mailingAddress.region
SelectRegion(newRegion) ==
  /\ newRegion \in (IF isRegionDropdown THEN regionOptions ELSE RegionTexts)
  /\ accountDetails' = [accountDetails EXCEPT !.mailingAddress.region = newRegion]
  /\ regionEnteredFor' = accountDetails.mailingAddress.country
  /\ last' = [op |-> "region", to |-> newRegion]
  /\ UNCHANGED <<feeVars, payVars, alerts>>

(* ---------------------------------------------------------------------- *)
(* Specifications                                                          *)
(* ---------------------------------------------------------------------- *)
\* the fee half is the same text in both revisions of the store
Init ==
  /\ InitFees
  /\ InitPay
  /\ revision = 1
  /\ alerts = <<>>
  /\ InitForm
  /\ last = [op |-> "init"]

\* how many addFee calls with this same item have run in a row since the
\* ledger was empty (0: the run was broken)
Streak(newFee) ==
  IF fees = <<>> THEN 1
  ELSE IF last.op = "addFee" /\ last.item = newFee /\ last.streak > 0 THEN last.streak + 1
  ELSE 0

\* the ledger alone: addFee and removeFee with any item, each step recorded
LedgerAdd(newFee) ==
  /\ addFee(newFee)
  /\ last' = [op |-> "addFee", item |-> newFee, before |-> fees, streak |-> Streak(newFee)]

LedgerRemove(feeToRemove) ==
  /\ removeFee(feeToRemove)
  /\ last' = [op |-> "removeFee", item |-> feeToRemove, before |-> fees,
              pair |-> IF last.op = "addFee" /\ last.item = feeToRemove
                       THEN <<last.before>> ELSE <<>>]

NextLedger ==
  \/ \E newFee \in FeeItems : LedgerAdd(newFee)
  \/ \E feeToRemove \in FeeItems : LedgerRemove(feeToRemove)

SpecLedger == Init /\ [][NextLedger]_vars

\* the FeeInfo records the service hands out, which the pages pass to addFee
ServiceFees == {FeeOf(d) : d \in FilingData}

Next ==
  \/ \E newFee \in ServiceFees : addFee(newFee) /\ last' = [op |-> "addFee"]
  \/ \E feeToRemove \in ServiceFees : removeFee(feeToRemove) /\ last' = [op |-> "removeFee"]
  \/ \E f \in Folios, l \in FilingDataLists : loadFeeTypesAndCharges(f, l)
  \/ \E c \in 1..Len(calls), fee \in ServiceFees \cup {UndefinedObject} : LoadResolve(c, fee)
  \/ \E c \in 1..Len(calls) : LoadReject(c)
  \/ \E d \in FilingData, t \in BOOLEAN : getFeeInfo(d, t)
  \/ \E c \in 1..Len(calls), fee \in ServiceFees \cup {UndefinedObject} :
       GetFeeInfoResolve(c, fee)
  \/ \E c \in 1..Len(calls) : GetFeeInfoReject(c)
  \/ \E code \in FeeCodes : addPayFees(code)
  \/ \E c \in 1..Len(calls) : AddPayFeesResume(c)
  \/ \E c \in 1..Len(calls), fee \in ServiceFees \cup {UndefinedObject} :
       AddPayFeesResolve(c, fee)
  \/ \E c \in 1..Len(calls) : AddPayFeesReject(c)
  \/ reset

Spec == Init /\ [][Next]_vars

\* the lookups alone: batches, getFeeInfo and $reset
NextLookup ==
  \/ \E f \in Folios, l \in FilingDataLists : loadFeeTypesAndCharges(f, l)
  \/ \E c \in 1..Len(calls), fee \in ServiceFees \cup {UndefinedObject} : LoadResolve(c, fee)
  \/ \E c \in 1..Len(calls) : LoadReject(c)
  \/ \E d \in FilingData, t \in BOOLEAN : getFeeInfo(d, t)
  \/ \E c \in 1..Len(calls), fee \in ServiceFees \cup {UndefinedObject} :
       GetFeeInfoResolve(c, fee)
  \/ \E c \in 1..Len(calls) : GetFeeInfoReject(c)
  \/ reset

SpecLookup == Init /\ [][NextLookup]_vars

\* the payment method selector, in either revision of the store
InitSelector ==
  /\ InitFees
  /\ InitPay
  /\ revision \in {1, 2}
  /\ alerts = <<>>
  /\ InitForm
  /\ last = [op |-> "init"]

NextPay ==
  \/ \E value \in PaymentMethod : SetSelected(value)
  \/ WatchFlush
  \/ \E accountLoaded \in BOOLEAN : initPaymentMethod(accountLoaded)
  \/ \E c \in 1..Len(inits), response \in Snapshots : InitResolve(c, response)
  \/ \E c \in 1..Len(inits) : InitResolveNull(c)
  \/ \E c \in 1..Len(inits) : InitReject(c)

SpecPay == InitSelector /\ [][NextPay]_vars

\* the whole store (lines 16-203): both halves run side by side; the callers
\* pass one descriptor, one fee code and one fee, and the payment-account
\* resolver answers with one snapshot, a PAD account pending activation
StoreData == [entityType |-> "BC", filingTypeCode |-> "BCANN"]

StoreSnapshots ==
  {[paymentMethod |-> "PAD",
    cfsAccount |-> [status |-> "PENDING", bankAccountNumber |-> "1234"]]}

NextStore ==
  \/ addFee(FeeOf(StoreData)) /\ last' = [op |-> "addFee"]
  \/ removeFee(FeeOf(StoreData)) /\ last' = [op |-> "removeFee"]
  \/ \E l \in {<<>>, <<StoreData>>} : loadFeeTypesAndCharges("F1", l)
  \/ \E c \in 1..Len(calls), fee \in {FeeOf(StoreData), UndefinedObject} : LoadResolve(c, fee)
  \/ \E c \in 1..Len(calls) : LoadReject(c)
  \/ \E t \in BOOLEAN : getFeeInfo(StoreData, t)
  \/ \E c \in 1..Len(calls), fee \in {FeeOf(StoreData), UndefinedObject} :
       GetFeeInfoResolve(c, fee)
  \/ \E c \in 1..Len(calls) : GetFeeInfoReject(c)
  \/ addPayFees("BCANN")
  \/ \E c \in 1..Len(calls) : AddPayFeesResume(c)
  \/ \E c \in 1..Len(calls), fee \in {FeeOf(StoreData), UndefinedObject} :
       AddPayFeesResolve(c, fee)
  \/ \E c \in 1..Len(calls) : AddPayFeesReject(c)
  \/ reset
  \/ \E value \in PaymentMethod : SetSelected(value)
  \/ WatchFlush
  \/ \E accountLoaded \in BOOLEAN : initPaymentMethod(accountLoaded)
  \/ \E c \in 1..Len(inits), response \in StoreSnapshots : InitResolve(c, response)
  \/ \E c \in 1..Len(inits) : InitResolveNull(c)
  \/ \E c \in 1..Len(inits) : InitReject(c)

SpecStore == Init /\ [][NextStore]_vars

\* removeFee and addFee on any ledger a page may have put in the exposed ref
\* fees: entries with distinct keys whose optional quantity is absent, 0 or more
AnyEntries(k) ==
  {[filingTypeCode |-> "BCANN", total |-> "20", filingFees |-> "20", uiUuid |-> k]
     @@ t @@ q :
     t \in {[filingType |-> ft] : ft \in FilingTypes},
     q \in {<<>>} \cup {[quantity |-> n] : n \in 0..MaxQuantity}}

AnyLedgers ==
  {<<>>} \cup {<<e>> : e \in AnyEntries(1)}
    \cup {l \in {<<e, f>> : e \in AnyEntries(1), f \in AnyEntries(2)} : ~SameKey(l[1], l[2])}

InitAny ==
  /\ fees \in AnyLedgers
  /\ nextUuid = Len(fees) + 1
  /\ folioNumber = ""
  /\ feeInfo = <<>>
  /\ calls = <<>>
  /\ InitPay
  /\ revision = 1
  /\ alerts = <<>>
  /\ InitForm
  /\ last = [op |-> "init"]

SpecAnyLedger == InitAny /\ [][NextLedger]_vars

\* the ledger with up to MaxEntries entries: the ledgers that addFee and
\* removeFee build from three fees of distinct keys, then addFee and removeFee
\* with those fees
OrderFees ==
  [filingType : {"ANNUAL_REPORT"}, filingTypeCode : {"BCANN", "CPANN", "SPANN"},
   total : {"20"}, filingFees : {"20"}]

OrderedLedgers ==
  {[k \in DOMAIN l |-> [quantity |-> l[k][2], uiUuid |-> k] @@ l[k][1]] :
     l \in {m \in UNION {[1..n -> OrderFees \X (1..MaxQuantity)] : n \in 0..MaxEntries} :
              \A j, k \in DOMAIN m : j # k => ~SameKey(m[j][1], m[k][1])}}

InitOrdered ==
  /\ fees \in OrderedLedgers
  /\ nextUuid = Len(fees) + 1
  /\ folioNumber = ""
  /\ feeInfo = <<>>
  /\ calls = <<>>
  /\ InitPay
  /\ revision = 1
  /\ alerts = <<>>
  /\ InitForm
  /\ last = [op |-> "init"]

NextOrdered ==
  \/ \E newFee \in OrderFees : LedgerAdd(newFee)
  \/ \E feeToRemove \in OrderFees : LedgerRemove(feeToRemove)

SpecOrderedLedger == InitOrdered /\ [][NextOrdered]_vars

\* the account-creation form: the country menu and the region field
NextForm ==
  \/ \E newCountry \in Countries : SelectCountry(newCountry)
  \/ \E newRegion \in UNION {countrySubdivisions[c] : c \in DOMAIN countrySubdivisions}
                         \cup RegionTexts : SelectRegion(newRegion)

SpecForm == Init /\ [][NextForm]_vars

(* ---------------------------------------------------------------------- *)
(* Claims: the fee ledger                                                  *)
(* ---------------------------------------------------------------------- *)
KeyPresent(fs, item) == \E k \in 1..Len(fs) : SameKey(fs[k], item)

FirstKey(fs, item) ==
  CHOOSE k \in 1..Len(fs) : SameKey(fs[k], item) /\ \A j \in 1..(k - 1) : ~SameKey(fs[j], item)

\* C1: after any sequence of addFee and removeFee calls from the empty ledger,
\* no two entries share a (filingType, filingTypeCode) key and every entry has
\* a quantity >= 1.
C1_UniqueKeysPositiveQuantity ==
  /\ \A j, k \in 1..Len(fees) : j # k => ~SameKey(fees[j], fees[k])
  /\ \A k \in 1..Len(fees) : HasQuantity(fees[k]) /\ fees[k].quantity >= 1

\* two entries are held, one of them added twice, and a malformed item was
\* just handed to addFee
C1_Witness ==
  /\ Len(fees) = 2
  /\ \E k \in 1..2 : fees[k].quantity = 2
  /\ last.op = "addFee"
  /\ InvalidFee(last.item)

\* C2: addFee(item) directly followed by removeFee(item) leaves the ledger as
\* it was before the two calls (entries, order, quantities, identifiers), and
\* an identifier is never handed out twice: every entry a step adds carries an
\* identifier no earlier entry was given.
C2_Restored == (last.op = "removeFee" /\ last.pair # <<>>) => fees = last.pair[1]

C2_FreshIds ==
  /\ \A k \in 1..Len(fees) : fees[k].uiUuid < nextUuid
  /\ \A k \in 1..Len(fees') :
       (\A j \in 1..Len(fees) : fees[j].uiUuid # fees'[k].uiUuid)
         => (fees'[k].uiUuid >= nextUuid /\ fees'[k].uiUuid < nextUuid')

C2_AddThenRemoveRestores == [](C2_Restored) /\ [][C2_FreshIds]_vars

\* a pair addFee(item); removeFee(item) has run on a ledger that holds an
\* entry, for an item whose entry the pair created and deleted
C2_Witness ==
  /\ last.op = "removeFee"
  /\ last.pair # <<>>
  /\ fees # <<>>
  /\ ~KeyPresent(fees, last.item)
  /\ ~InvalidFee(last.item)

\* C3: addFee with an item whose total, filingFees or filingTypeCode is
\* null/undefined changes nothing, also when the ledger holds an entry with
\* the item's key.
C3_MalformedAddIsNoOp ==
  (last.op = "addFee" /\ InvalidFee(last.item)) => fees = last.before

\* C4: addFee with a valid item whose key is absent appends one entry with
\* quantity 1 and a fresh identifier; with a key present at quantity n it
\* changes only that entry's quantity, to n + 1; k addFee calls in a row with
\* one valid item on the empty ledger leave one entry of quantity k.
C4_AddFee ==
  last.op = "addFee" =>
    LET b == last.before
        item == last.item
    IN
    /\ KeyPresent(b, item) =>
         /\ Len(fees) = Len(b)
         /\ \A j \in 1..Len(b) :
              fees[j] = IF j = FirstKey(b, item)
                        THEN [b[j] EXCEPT !.quantity = b[j].quantity + 1] ELSE b[j]
    /\ (~KeyPresent(b, item) /\ ~InvalidFee(item)) =>
         /\ Len(fees) = Len(b) + 1
         /\ SubSeq(fees, 1, Len(b)) = b
         /\ fees[Len(fees)] = [quantity |-> 1, uiUuid |-> nextUuid - 1] @@ item
         /\ \A j \in 1..Len(b) : b[j].uiUuid < nextUuid - 1
    /\ (last.streak > 0 /\ ~InvalidFee(item)) =>
         /\ Len(fees) = 1
         /\ fees[1].quantity = last.streak

\* the same valid item was added twice in a row on the empty ledger
C4_Witness ==
  /\ last.op = "addFee"
  /\ last.streak = 2
  /\ ~InvalidFee(last.item)

\* C5: removeFee on a key present with quantity n > 1 changes only that
\* entry's quantity, to n - 1; on a key present with quantity <= 1 or no
\* quantity it deletes that entry and no other; on a key not present it
\* changes nothing.
C5_RemoveFee ==
  last.op = "removeFee" =>
    LET b == last.before
        item == last.item
    IN
    IF ~KeyPresent(b, item) THEN fees = b
    ELSE LET k == FirstKey(b, item) IN
         IF HasQuantity(b[k]) /\ b[k].quantity > 1
         THEN /\ Len(fees) = Len(b)
              /\ \A j \in 1..Len(b) :
                   fees[j] = IF j = k THEN [b[j] EXCEPT !.quantity = b[j].quantity - 1]
                             ELSE b[j]
         ELSE /\ Len(fees) = Len(b) - 1
              /\ \A j \in 1..Len(fees) : fees[j] = IF j < k THEN b[j] ELSE b[j + 1]

\* removeFee deleted the first of two entries, which had no quantity
C5_Witness ==
  /\ last.op = "removeFee"
  /\ Len(last.before) = 2
  /\ SameKey(last.before[1], last.item)
  /\ ~HasQuantity(last.before[1])
  /\ fees = <<last.before[2]>>

(* ---------------------------------------------------------------------- *)
(* Claims: the fee lookups                                                 *)
(* ---------------------------------------------------------------------- *)
Cached(cache, d) == \E k \in 1..Len(cache) : SameData(cache[k][1], d)

\* C6: once the cache holds an entry for a key, every getFeeInfo call for that
\* key with tryLoadIfNotCached = true returns the cached FeeInfo and starts no
\* fetch; the entry stays the first of its key until $reset is called.
C6_Step ==
  /\ (last'.op = "getFeeInfo" /\ last'.tryLoadIfNotCached /\ Cached(feeInfo, last'.d)) =>
       /\ calls' = calls
       /\ last'.returned
       /\ last'.result = feeInfo[CacheIndex(feeInfo, last'.d)][2]
  /\ \A d \in FilingData :
       (Cached(feeInfo, d) /\ last'.op # "$reset") =>
         /\ Cached(feeInfo', d)
         /\ feeInfo'[CacheIndex(feeInfo', d)] = feeInfo[CacheIndex(feeInfo, d)]

C6_CachedNoFetch == [][C6_Step]_vars

\* getFeeInfo(d, true) has just returned the FeeInfo cached for d while
\* another lookup is in flight
C6_Witness ==
  /\ last.op = "getFeeInfo"
  /\ last.tryLoadIfNotCached
  /\ last.returned
  /\ last.result = FeeOf(last.d)
  /\ calls # <<>>

\* C10: whenever addPayFees ends in a failure (fetchFee rejects, the code is
\* not in the fee-type table, the lookup yields no FeeInfo) a FEE_INFO alert
\* is recorded and the ledger is what it was.
C10_Step ==
  (last'.op = "addPayFees.returned" /\ last'.outcome # "added") =>
    /\ fees' = fees
    /\ alerts' = Append(alerts, "FEE_INFO")

C10_FailureAlerts == [][C10_Step]_vars

\* no watcher job is queued and no initPaymentMethod call is in flight
Quiescent == ~watchQueued /\ inits = <<>>

\* C7: when the snapshot's status is pending and the caller changes the
\* selection from DIRECT_PAY to PAD, the watcher's flush leaves the selection
\* at DIRECT_PAY and has recorded exactly one PAYMENT_METHOD alert for it.
C7_RevertWithOneAlert ==
  (/\ last.op = "watch"
   /\ last.set.op = "set"
   /\ last.set.pending
   /\ last.set.from = "DIRECT_PAY"
   /\ last.set.to = "PAD")
  => /\ userSelectedPaymentMethod = "DIRECT_PAY"
     /\ Len(alerts) = last.set.alertsAtSet + 1

\* C8: in every quiescent state whose snapshot has a pending status the
\* selected method is DIRECT_PAY.
C8_PendingSelectsDirectPay ==
  (Quiescent /\ PendingStatus(userPaymentAccount))
  => userSelectedPaymentMethod = "DIRECT_PAY"

\* C9: a failed initPaymentMethod call that overlapped no other leaves the
\* alternate-method flag false, the snapshot empty and the allowed list
\* empty, and has recorded a PAYMENT_METHOD alert.
C9_FailedInitLeavesResetState ==
  (last.op = "initPaymentMethod.failed" /\ ~last.overlapped)
  => /\ allowAlternatePaymentMethod = FALSE
     /\ userPaymentAccount = EmptyAccount
     /\ allowedPaymentMethods = <<>>
     /\ alerts # <<>>
     /\ alerts[Len(alerts)] = "PAYMENT_METHOD"

(* ---------------------------------------------------------------------- *)
(* Claims: batches, the cache, $reset                                      *)
(* ---------------------------------------------------------------------- *)
\* C11: in a loadFeeTypesAndCharges batch a descriptor whose fetchFee lookup
\* fails (resolves with undefined, or rejects) adds no cache entry and does not
\* stop the batch: the call goes on to fetch the next descriptor of the list.
C11_Step ==
  (/\ last'.op \in {"loadFeeTypesAndCharges.resolved", "loadFeeTypesAndCharges.rejected"}
   /\ ~last'.found)
  => /\ feeInfo' = feeInfo
     /\ last'.rest # <<>> =>
          /\ last'.at <= Len(calls')
          /\ calls'[last'.at].op = "loadFeeTypesAndCharges"
          /\ calls'[last'.at].d = Head(last'.rest)
          /\ calls'[last'.at].rest = Tail(last'.rest)

C11_FailedLookupSkipped == [][C11_Step]_vars

\* C12: in every reachable state the feeInfo cache holds at most one entry
\* per (entityType, filingTypeCode) key.
C12_OneEntryPerKey ==
  \A j, k \in 1..Len(feeInfo) : j # k => ~SameData(feeInfo[j][1], feeInfo[k][1])

\* C13: $reset empties fees, folioNumber and the feeInfo cache in one step,
\* and no step other than $reset removes or changes a cache entry (the cache
\* before the step is a prefix of the cache after it).
C13_Step ==
  /\ last'.op = "$reset" => (fees' = <<>> /\ folioNumber' = "" /\ feeInfo' = <<>>)
  /\ last'.op # "$reset" =>
       /\ Len(feeInfo') >= Len(feeInfo)
       /\ SubSeq(feeInfo', 1, Len(feeInfo)) = feeInfo

C13_AtomicReset == [][C13_Step]_vars

\* $reset has just cleared a ledger, a folio number and a cache that were all
\* set, while a lookup is in flight
C13_Witness ==
  /\ last.op = "$reset"
  /\ last.hadFees /\ last.hadFolio /\ last.hadCache
  /\ calls # <<>>
  /\ fees = <<>> /\ folioNumber = "" /\ feeInfo = <<>>

\* C15: $reset leaves the lookups in flight as they are, and a response that
\* resolves right after it is written into the cleared state: the cache then
\* holds that one entry and, for addPayFees, the ledger holds the fee.
C15_Step ==
  /\ last'.op = "$reset" => calls' = calls
  /\ (last.op = "$reset" /\ last'.op = "loadFeeTypesAndCharges.resolved" /\ last'.found) =>
       feeInfo' = <<<<last'.d, FeeOf(last'.d)>>>>
  /\ (last.op = "$reset" /\ last'.op = "getFeeInfo.returned"
        /\ Len(feeInfo') + Len(feeInfo) > 0) =>
       feeInfo' = <<<<last'.d, last'.result>>>>
  /\ (last.op = "$reset" /\ last'.op = "addPayFees.returned" /\ last'.outcome = "added") =>
       /\ Len(fees') = 1
       /\ fees'[1].quantity = 1
       /\ Len(feeInfo') <= 1

C15_ResetKeepsInFlight == [][C15_Step]_vars

\* an addPayFees call that was fetching when $reset ran has resolved right
\* after it: cache and ledger are no longer empty
C15_Witness ==
  /\ last.op = "addPayFees.returned"
  /\ last.outcome = "added"
  /\ last.afterReset
  /\ Len(feeInfo) = 1
  /\ Len(fees) = 1
  /\ folioNumber = ""

\* the getFeeInfo calls in flight
GetFeeInfoCalls(cs) == SelectSeq(cs, LAMBDA call : call.op = "getFeeInfo")

\* C16: a getFeeInfo call issues at most one fetch and then ends: with
\* tryLoadIfNotCached = false it fetches nothing and returns at once; on a
\* miss with tryLoadIfNotCached = true it starts one fetch; the completion of
\* that fetch ends the call, which returns what the cache then holds for the
\* key (undefined when still absent) and under no step is a getFeeInfo call
\* in flight changed otherwise.
C16_Step ==
  /\ last'.op = "getFeeInfo" =>
       /\ ~last'.tryLoadIfNotCached => (calls' = calls /\ last'.returned)
       /\ last'.returned => (calls' = calls /\ last'.result = CacheLookup(feeInfo, last'.d))
       /\ ~last'.returned =>
            /\ ~Cached(feeInfo, last'.d)
            /\ calls' = Append(calls, [op |-> "getFeeInfo", pc |-> "fetch", d |-> last'.d])
  /\ last'.op = "getFeeInfo.returned" => last'.result = CacheLookup(feeInfo', last'.d)
  /\ last'.op # "getFeeInfo" =>
       \/ GetFeeInfoCalls(calls') = GetFeeInfoCalls(calls)
       \/ /\ Len(GetFeeInfoCalls(calls')) = Len(GetFeeInfoCalls(calls)) - 1
          /\ last'.op \in {"getFeeInfo.returned", "getFeeInfo.rejected"}

C16_OneFetchPerCall == [][C16_Step]_vars

\* a getFeeInfo call has fetched once, the key is still absent, and it has
\* returned undefined
C16_Witness ==
  /\ last.op = "getFeeInfo.returned"
  /\ last.result = UndefinedObject
  /\ ~Cached(feeInfo, last.d)

\* C17: a batch has one fetch in flight at a time, in list order: starting
\* loadFeeTypesAndCharges issues the fetch of the first descriptor only, the
\* fetch of the next one is issued by the step that completes the previous
\* one, after that step has appended the previous one's entry.
C17_Step ==
  /\ last'.op = "loadFeeTypesAndCharges" =>
       calls' = IF last'.filingData = <<>> THEN calls
                ELSE Append(calls, [op |-> "loadFeeTypesAndCharges", pc |-> "fetch",
                                    d |-> Head(last'.filingData),
                                    rest |-> Tail(last'.filingData)])
  /\ last'.op = "loadFeeTypesAndCharges.resolved" =>
       /\ feeInfo' = IF last'.found THEN Append(feeInfo, <<last'.d, FeeOf(last'.d)>>)
                     ELSE feeInfo
       /\ calls' = IF last'.rest = <<>> THEN Splice(calls, last'.at)
                   ELSE [calls EXCEPT ![last'.at] =
                           [op |-> "loadFeeTypesAndCharges", pc |-> "fetch",
                            d |-> Head(last'.rest), rest |-> Tail(last'.rest)]]

C17_SequentialBatch == [][C17_Step]_vars

\* the first fetch of a batch of two has resolved and been cached, and the
\* second fetch is now the one in flight
C17_Witness ==
  /\ last.op = "loadFeeTypesAndCharges.resolved"
  /\ last.found
  /\ last.rest # <<>>
  /\ feeInfo # <<>>
  /\ calls[last.at].d = Head(last.rest)

(* ---------------------------------------------------------------------- *)
(* Claims: initPaymentMethod                                               *)
(* ---------------------------------------------------------------------- *)
\* C14: after a successful initPaymentMethod whose snapshot has a pending
\* status the selected method is DIRECT_PAY, whatever the snapshot's
\* paymentMethod; allowAlternatePaymentMethod is true after a successful call
\* and false after a failed one.
C14_PendingForcesDirectPay ==
  /\ (last.op = "initPaymentMethod.done" /\ PendingStatus(userPaymentAccount)) =>
       userSelectedPaymentMethod = "DIRECT_PAY"
  /\ last.op = "initPaymentMethod.done" => allowAlternatePaymentMethod
  /\ last.op = "initPaymentMethod.failed" => ~allowAlternatePaymentMethod

\* the values allowedPaymentMethods offers, in order
AllowedValues == [k \in 1..Len(allowedPaymentMethods) |-> allowedPaymentMethods[k].value]

\* C18: after a successful initPaymentMethod whose snapshot has a
\* paymentMethod m, allowedPaymentMethods offers m and, only when m is not
\* DIRECT_PAY, DIRECT_PAY, each value once.
C18_AllowedValues ==
  (last.op = "initPaymentMethod.done" /\ userPaymentAccount.paymentMethod # Undefined) =>
    LET m == userPaymentAccount.paymentMethod IN
    /\ {AllowedValues[k] : k \in 1..Len(AllowedValues)} = {m, "DIRECT_PAY"}
    /\ Len(AllowedValues) = Cardinality({m, "DIRECT_PAY"})

\* C19: every initPaymentMethod call that sends its request sends exactly
\* one, a failed request is not sent again, and when a call has failed and
\* none is in flight (Failed) allowAlternatePaymentMethod is false.
C19_AsStated ==
  /\ last'.op = "initPaymentMethod" => Len(inits') = Len(inits) + 1
  /\ (last'.op = "initPaymentMethod.failed" /\ last'.why # "no account") =>
       Len(inits') = Len(inits) - 1
  /\ (last'.op = "initPaymentMethod.failed" /\ inits' = <<>>) => ~allowAlternatePaymentMethod'

C19_StateMachine == [][C19_AsStated]_vars

\* C20: the start of initPaymentMethod (resetPaymentOptions) leaves the empty
\* snapshot, PAD selected, the alternate-method flag false and the allowed
\* list empty.
C20_ResetSelectsPad ==
  last.op = "initPaymentMethod" =>
    /\ userPaymentAccount = EmptyAccount
    /\ userSelectedPaymentMethod = "PAD"
    /\ allowAlternatePaymentMethod = FALSE
    /\ allowedPaymentMethods = <<>>

\* C21: when initPaymentMethod calls overlapped and the last of them has now
\* completed, the selector state is the one of the call that was started
\* last: if that call completed last and failed, the alternate-method flag is
\* false and no earlier call's snapshot is kept; if it succeeded, the flag is
\* true; a call started earlier that completes after it changes nothing.
C21_Step ==
  LET ended == /\ last'.op \in {"initPaymentMethod.done", "initPaymentMethod.failed"}
               /\ last'.overlapped
               /\ inits' = <<>>
  IN
  /\ (ended /\ last'.latest /\ last'.op = "initPaymentMethod.failed") =>
       /\ ~allowAlternatePaymentMethod'
       /\ userPaymentAccount' \in {EmptyAccount, NullAccount}
  /\ (ended /\ last'.latest /\ last'.op = "initPaymentMethod.done") =>
       allowAlternatePaymentMethod'
  /\ (ended /\ ~last'.latest) =>
       UNCHANGED <<userPaymentAccount, allowedPaymentMethods, userSelectedPaymentMethod,
                   allowAlternatePaymentMethod>>

C21_LatestCallWins == [][C21_Step]_vars

\* C22: the step that completes an initPaymentMethod call successfully (its
\* assignments and the watcher runs they trigger) records no alert, whatever
\* the status of the fetched snapshot.
C22_Step == last'.op = "initPaymentMethod.done" => alerts' = alerts

C22_SuccessRecordsNoAlert == [][C22_Step]_vars

(* ---------------------------------------------------------------------- *)
(* Claims: the two halves of the store                                     *)
(* ---------------------------------------------------------------------- *)
\* the steps of the fee half and of the payment half, by the name they record
FeeOps ==
  {"addFee", "removeFee", "loadFeeTypesAndCharges", "loadFeeTypesAndCharges.resolved",
   "loadFeeTypesAndCharges.rejected", "getFeeInfo", "getFeeInfo.returned",
   "getFeeInfo.rejected", "addPayFees", "addPayFees.returned", "$reset"}

PayOps ==
  {"set", "watch", "initPaymentMethod", "initPaymentMethod.done", "initPaymentMethod.failed"}

\* C23: every step of addFee, removeFee, loadFeeTypesAndCharges, getFeeInfo,
\* addPayFees and $reset leaves userPaymentAccount, userSelectedPaymentMethod,
\* allowedPaymentMethods and allowAlternatePaymentMethod unchanged; every step
\* of initPaymentMethod and of the watcher leaves fees, folioNumber and
\* feeInfo unchanged; folioNumber changes only in the step that starts a
\* loadFeeTypesAndCharges call and in $reset.
C23_Step ==
  /\ last'.op \in FeeOps \cup PayOps
  /\ last'.op \in FeeOps =>
       UNCHANGED <<userPaymentAccount, userSelectedPaymentMethod, allowedPaymentMethods,
                   allowAlternatePaymentMethod>>
  /\ last'.op \in PayOps => UNCHANGED <<fees, folioNumber, feeInfo>>
  /\ folioNumber' # folioNumber => last'.op \in {"loadFeeTypesAndCharges", "$reset"}

C23_HalvesAreSeparate == [][C23_Step]_vars

\* $reset has just cleared a ledger, a folio number and a cache while the
\* payment selector holds the snapshot and the list of a completed
\* initPaymentMethod: the selector is as it was
C23_Witness ==
  /\ last.op = "$reset"
  /\ last.hadFees /\ last.hadFolio /\ last.hadCache
  /\ fees = <<>>
  /\ PendingStatus(userPaymentAccount)
  /\ allowAlternatePaymentMethod
  /\ allowedPaymentMethods # <<>>
  /\ userSelectedPaymentMethod = "DIRECT_PAY"

(* ---------------------------------------------------------------------- *)
(* Claims: the order of the ledger                                         *)
(* ---------------------------------------------------------------------- *)
\* the identifiers of the entries, in ledger order
Ids(fs) == [k \in 1..Len(fs) |-> fs[k].uiUuid]

\* C24: the ledger keeps insertion order: addFee on a present key and a
\* removeFee that decrements leave the order of the entries as it was, a new
\* entry is appended at the end, and a removeFee that deletes an entry leaves
\* the others in their order.
C24_KeepsInsertionOrder ==
  /\ last.op = "addFee" =>
       IF KeyPresent(last.before, last.item) THEN Ids(fees) = Ids(last.before)
       ELSE \/ fees = last.before
            \/ /\ Len(fees) = Len(last.before) + 1
               /\ SubSeq(fees, 1, Len(last.before)) = last.before
  /\ last.op = "removeFee" =>
       IF ~KeyPresent(last.before, last.item) THEN fees = last.before
       ELSE LET k == FirstKey(last.before, last.item) IN
            IF last.before[k].quantity > 1 THEN Ids(fees) = Ids(last.before)
            ELSE /\ Len(fees) = Len(last.before) - 1
                 /\ \A j \in 1..Len(fees) :
                      fees[j] = IF j < k THEN last.before[j] ELSE last.before[j + 1]

\* removeFee has just deleted the first of three entries
C24_Witness ==
  /\ last.op = "removeFee"
  /\ Len(last.before) = 3
  /\ Len(fees) = 2
  /\ FirstKey(last.before, last.item) = 1
  /\ Ids(fees) = <<last.before[2].uiUuid, last.before[3].uiUuid>>

(* ---------------------------------------------------------------------- *)
(* Claims: the account-creation form                                       *)
(* ---------------------------------------------------------------------- *)
\* C25: a country change clears the region exactly when the country moves
\* between {CA, US} and the other countries, in either direction, and leaves
\* it unchanged otherwise; the stored region is always empty or a value that
\* was entered for the current country.
C25_RegionFollowsCountry ==
  /\ last.op = "country" =>
       accountDetails.mailingAddress.region =
         IF IsDropdownCode(last.from) # IsDropdownCode(last.to) THEN Undefined
         ELSE last.regionBefore
  /\ accountDetails.mailingAddress.region # Undefined =>
       regionEnteredFor = accountDetails.mailingAddress.country

====
